---------------------------- MODULE Spec2Model ----------------------------
(***************************************************************************)
(* A model of the draft-history front end: the team alias resolver         *)
(* (utils/teamAliases), the trade chain parser and the sort state of        *)
(* DraftTable.vue, the CSV pick ingestor (utils/csvParser) and the CSV      *)
(* cache over localStorage (utils/csvCache).                                *)
(*                                                                         *)
(* A JavaScript string is a sequence of one-character strings, so that      *)
(* trimming, splitting and pattern matching are computed character by       *)
(* character as the code does.  null is the value NULL.  A JavaScript       *)
(* number is a record [k, v, d]: k is "number", "NaN", "Infinity" or        *)
(* "undefined", and a number's value is v / 10^d.                           *)
(***************************************************************************)
EXTENDS Integers, Sequences, FiniteSets, TLC

VARIABLES
    code,        \* alias resolver: the team code passed in
    year,        \* alias resolver: the optional year passed in
    aliasRet,    \* alias resolver: the last call and what it returned
    trade,       \* trade parser: the raw trade string (or NULL)
    nAppended,   \* trade parser: pieces appended to the seed string
    tradeRet,    \* trade parser: the last call and what it returned
    csvText,     \* ingestor: the CSV text served for every team file
    rows,        \* ingestor: the <<year, trade>> fields of the data lines written
    datasets,    \* ingestor: team -> the picks parseCSV returned, or NotLoaded
    csvLine,     \* line splitter: the CSV line passed in
    lineRet,     \* line splitter: the last call and the fields it returned
    appVersion,  \* cache: the version of the build that is running
    localStorage,\* cache: the browser's storage, key -> value for the keys present
    cacheRet,    \* cache: the last call, the storage it found and what it returned
    sortBy,      \* table: the sort state, a list of [key, order]
    sortCall,    \* table: the last sort update and the sort state it found
    ingestRet    \* ingestor: the last direct call of parseCSV and how it ended

vars ==
    <<code, year, aliasRet, trade, nAppended, tradeRet, csvText, rows, datasets,
      csvLine, lineRet, appVersion, localStorage, cacheRet, sortBy, sortCall,
      ingestRet>>

-----------------------------------------------------------------------------
(* JavaScript values *)

NULL == <<"<null>">>

Undefined == [k |-> "undefined", v |-> 0, d |-> 0]

NaN == [k |-> "NaN", v |-> 0, d |-> 0]

Num(n) == [k |-> "number", v |-> n, d |-> 0]

\* year < n for a year that may be NaN (every comparison with NaN is false)
NumLess(y, n) == y.k = "number" /\ y.v < n

-----------------------------------------------------------------------------
(* String primitives *)

\* what /\s/ matches and String.prototype.trim strips
WhiteSpace == {" ", "\t", "\n", "\r"}

LowerAlpha == <<"a","b","c","d","e","f","g","h","i","j","k","l","m",
                "n","o","p","q","r","s","t","u","v","w","x","y","z">>

UpperAlpha == <<"A","B","C","D","E","F","G","H","I","J","K","L","M",
                "N","O","P","Q","R","S","T","U","V","W","X","Y","Z">>

\* the letters String.prototype.toUpperCase changes, each with its capital
UpperOf ==
    [c \in {LowerAlpha[i] : i \in 1..Len(LowerAlpha)} |->
        UpperAlpha[CHOOSE i \in 1..Len(LowerAlpha) : LowerAlpha[i] = c]]

LowerOf ==
    [c \in {UpperAlpha[i] : i \in 1..Len(UpperAlpha)} |->
        LowerAlpha[CHOOSE i \in 1..Len(UpperAlpha) : UpperAlpha[i] = c]]

UpperChar(c) == IF c \in DOMAIN UpperOf THEN UpperOf[c] ELSE c

LowerChar(c) == IF c \in DOMAIN LowerOf THEN LowerOf[c] ELSE c

toUpperCase(s) == [i \in 1..Len(s) |-> UpperChar(s[i])]

toLowerCase(s) == [i \in 1..Len(s) |-> LowerChar(s[i])]

RECURSIVE trimStart(_)
trimStart(s) ==
    IF s # <<>> /\ Head(s) \in WhiteSpace THEN trimStart(Tail(s)) ELSE s

RECURSIVE trimEnd(_)
trimEnd(s) ==
    IF s # <<>> /\ s[Len(s)] \in WhiteSpace
    THEN trimEnd(SubSeq(s, 1, Len(s) - 1))
    ELSE s

trim(s) == trimEnd(trimStart(s))

\* Array.prototype.filter(p => p): the non-empty strings of xs, in order
RECURSIVE filterNonEmpty(_)
filterNonEmpty(xs) ==
    IF xs = <<>> THEN <<>>
    ELSE (IF Head(xs) # <<>> THEN <<Head(xs)>> ELSE <<>>) \o filterNonEmpty(Tail(xs))

\* the first index >= i of s that holds no white space (Len(s) + 1 if none)
RECURSIVE SkipWhiteSpace(_, _)
SkipWhiteSpace(s, i) ==
    IF i <= Len(s) /\ s[i] \in WhiteSpace THEN SkipWhiteSpace(s, i + 1) ELSE i

\* String.prototype.indexOf(pat), 1-based; 0 when pat does not occur
RECURSIVE IndexFrom(_, _, _)
IndexFrom(s, pat, i) ==
    IF i + Len(pat) - 1 > Len(s) THEN 0
    ELSE IF SubSeq(s, i, i + Len(pat) - 1) = pat THEN i
    ELSE IndexFrom(s, pat, i + 1)

indexOf(s, pat) == IndexFrom(s, pat, 1)

\* String.prototype.split(sep) for a non-empty literal separator
RECURSIVE split(_, _)
split(s, sep) ==
    LET i == indexOf(s, sep)
    IN  IF i = 0 THEN <<s>>
        ELSE <<SubSeq(s, 1, i - 1)>> \o split(SubSeq(s, i + Len(sep), Len(s)), sep)

-----------------------------------------------------------------------------
(* Team alias resolver: utils/teamAliases *)

\* the object literal in key order, as <<alias, canonical>> pairs
TEAM_ALIAS_MAP ==
    << << <<"N","J","N">>, <<"B","K","N">> >>,
       << <<"S","E","A">>, <<"O","K","C">> >>,
       << <<"B","A","L">>, <<"W","A","S">> >>,
       << <<"B","U","F">>, <<"L","A","C">> >>,
       << <<"C","I","N">>, <<"S","A","C">> >>,
       << <<"F","W","P">>, <<"D","E","T">> >>,
       << <<"K","C","K">>, <<"S","A","C">> >>,
       << <<"N","O","J">>, <<"U","T","A">> >>,
       << <<"R","O","R">>, <<"S","A","C">> >>,
       << <<"S","D","C">>, <<"L","A","C">> >>,
       << <<"S","D","R">>, <<"H","O","U">> >>,
       << <<"S","T","H">>, <<"A","T","L">> >>,
       << <<"S","Y","R">>, <<"P","H","I">> >>,
       << <<"T","C","B">>, <<"A","T","L">> >>,
       << <<"V","A","N">>, <<"M","E","M">> >> >>

\* the second definition of the table, in utils/csvParser.ts
csvParser_TEAM_ALIAS_MAP ==
    << << <<"N","J","N">>, <<"B","K","N">> >>,
       << <<"S","E","A">>, <<"O","K","C">> >>,
       << <<"B","A","L">>, <<"W","A","S">> >>,
       << <<"B","U","F">>, <<"L","A","C">> >>,
       << <<"C","I","N">>, <<"S","A","C">> >>,
       << <<"F","W","P">>, <<"D","E","T">> >>,
       << <<"K","C","K">>, <<"S","A","C">> >>,
       << <<"N","O","J">>, <<"U","T","A">> >>,
       << <<"S","D","C">>, <<"L","A","C">> >>,
       << <<"S","D","R">>, <<"H","O","U">> >>,
       << <<"S","Y","R">>, <<"P","H","I">> >>,
       << <<"T","C","B">>, <<"A","T","L">> >>,
       << <<"V","A","N">>, <<"T","O","R">> >> >>

\* key in table
HasKey(table, key) == \E i \in 1..Len(table) : table[i][1] = key

\* table[key] || dflt  (every value of the tables is a non-empty string)
LookupOr(table, key, dflt) ==
    IF HasKey(table, key)
    THEN table[CHOOSE i \in 1..Len(table) : table[i][1] = key][2]
    ELSE dflt

getCanonicalTeam_IgnoresYear(team, yr) ==
    LookupOr(TEAM_ALIAS_MAP, toUpperCase(team), toUpperCase(team))

getCanonicalTeam(team, yr) ==
    LET upperTeam == toUpperCase(team)
    IN  IF upperTeam = <<"M","I","N">> /\ yr # Undefined /\ NumLess(yr, 1988)
        THEN <<"L","A","L">>
        ELSE LookupOr(TEAM_ALIAS_MAP, upperTeam, upperTeam)

csvParser_getCanonicalTeam(team) ==
    LookupOr(csvParser_TEAM_ALIAS_MAP, toUpperCase(team), toUpperCase(team))

isAlias(team) == HasKey(TEAM_ALIAS_MAP, toUpperCase(team))

\* both branches of the function return upperTeam
getDisplayTeam(team, yr) ==
    LET upperTeam == toUpperCase(team)
    IN  IF upperTeam = <<"L","A","L">> /\ yr # Undefined /\ NumLess(yr, 1988)
        THEN upperTeam
        ELSE upperTeam

\* the for..of loop over Object.entries(table) from entry i on
RECURSIVE AliasesOf(_, _, _)
AliasesOf(table, canonical, i) ==
    IF i > Len(table) THEN <<>>
    ELSE (IF toUpperCase(table[i][2]) = canonical
          THEN <<toUpperCase(table[i][1])>>
          ELSE <<>>) \o AliasesOf(table, canonical, i + 1)

getAllTeamCodes_MinAlways(canonicalTeam, yr) ==
    LET canonical == toUpperCase(canonicalTeam)
    IN  <<canonical>>
        \o (IF canonical = <<"L","A","L">> THEN << <<"M","I","N">> >> ELSE <<>>)
        \o AliasesOf(TEAM_ALIAS_MAP, canonical, 1)

getAllTeamCodes_SkipsFirstEntry(canonicalTeam, yr) ==
    LET canonical == toUpperCase(canonicalTeam)
    IN  <<canonical>>
        \o (IF canonical = <<"L","A","L">> /\ yr # Undefined /\ NumLess(yr, 1988)
            THEN << <<"M","I","N">> >>
            ELSE <<>>)
        \o AliasesOf(TEAM_ALIAS_MAP, canonical, 2)

getAllTeamCodes(canonicalTeam, yr) ==
    LET canonical == toUpperCase(canonicalTeam)
    IN  <<canonical>>
        \o (IF canonical = <<"L","A","L">> /\ yr # Undefined /\ NumLess(yr, 1988)
            THEN << <<"M","I","N">> >>
            ELSE <<>>)
        \o AliasesOf(TEAM_ALIAS_MAP, canonical, 1)

csvParser_getAllTeamCodes(canonicalTeam) ==
    LET canonical == toUpperCase(canonicalTeam)
    IN  <<canonical>> \o AliasesOf(csvParser_TEAM_ALIAS_MAP, canonical, 1)


-----------------------------------------------------------------------------
(* Trade chain parser: components/DraftTable.vue *)

\* a match of /\s+to\s+/ that starts at index i: the index after it, 0 if none.
\* Both \s+ are greedy and the text after a run of white space is none, so the
\* only match at i takes each run whole.
MatchSeparatorAt(s, i) ==
    IF i <= Len(s) /\ s[i] \in WhiteSpace
    THEN LET j == SkipWhiteSpace(s, i)
         IN  IF j + 2 <= Len(s) /\ s[j] = "t" /\ s[j + 1] = "o"
                /\ s[j + 2] \in WhiteSpace
             THEN SkipWhiteSpace(s, j + 2)
             ELSE 0
    ELSE 0

\* String.prototype.split(/\s+to\s+/): p is where the current segment starts
\* and q where the next match is tried
RECURSIVE SplitSeparatorFrom(_, _, _)
SplitSeparatorFrom(s, p, q) ==
    IF q > Len(s) THEN <<SubSeq(s, p, Len(s))>>
    ELSE LET e == MatchSeparatorAt(s, q)
         IN  IF e # 0
             THEN <<SubSeq(s, p, q - 1)>> \o SplitSeparatorFrom(s, e, e)
             ELSE SplitSeparatorFrom(s, p, q + 1)

splitSeparator_BareTo(s) == split(s, <<"t","o">>)

splitSeparator(s) == SplitSeparatorFrom(s, 1, 1)

\* part.split(/\s+/)[0]: the text before the first white space
RECURSIVE firstToken(_)
firstToken(s) ==
    IF s = <<>> \/ Head(s) \in WhiteSpace THEN <<>>
    ELSE <<Head(s)>> \o firstToken(Tail(s))

\* trades.split(/\s+to\s+/).map(p => p.trim()).filter(p => p)
tradeParts(trades) ==
    LET raw == splitSeparator(trades)
    IN  filterNonEmpty([k \in 1..Len(raw) |-> trim(raw[k])])

\* the loop over parts[1..]: the team each later part contributes, if any
RECURSIVE laterTeams_AnyLength(_)
laterTeams_AnyLength(parts) ==
    IF parts = <<>> THEN <<>>
    ELSE LET part == trim(Head(parts))
             team == firstToken(part)
         IN  (IF part # <<>> /\ team # <<>> THEN <<team>> ELSE <<>>)
             \o laterTeams_AnyLength(Tail(parts))

RECURSIVE laterTeams(_)
laterTeams(parts) ==
    IF parts = <<>> THEN <<>>
    ELSE LET part == trim(Head(parts))
             team == firstToken(part)
         IN  (IF part # <<>> /\ team # <<>> /\ Len(team) <= 4
              THEN <<team>> ELSE <<>>)
             \o laterTeams(Tail(parts))

\* the teams pushed to displayTeams and canonicalTeams, before the display or
\* canonical form is taken: the first part in full, then laterTeams
extractTeams(parts) ==
    LET firstTeam == trim(parts[1])
    IN  (IF firstTeam # <<>> THEN <<firstTeam>> ELSE <<>>) \o laterTeams(Tail(parts))

\* the unifying loop from index i on; seenLast is the last element of
\* seenCanonical, or NULL while seenCanonical is empty
RECURSIVE unify_ByDisplay(_, _, _)
unify_ByDisplay(teams, i, seenLast) ==
    IF i > Len(teams) THEN <<>>
    ELSE LET displayTeam == getDisplayTeam(teams[i], Undefined)
         IN  IF displayTeam = <<>> THEN unify_ByDisplay(teams, i + 1, seenLast)
             ELSE IF seenLast = NULL \/ seenLast # displayTeam
             THEN <<displayTeam>> \o unify_ByDisplay(teams, i + 1, displayTeam)
             ELSE unify_ByDisplay(teams, i + 1, seenLast)

RECURSIVE unify(_, _, _)
unify(teams, i, seenLast) ==
    IF i > Len(teams) THEN <<>>
    ELSE LET displayTeam == getDisplayTeam(teams[i], Undefined)
             canonical == getCanonicalTeam(teams[i], Undefined)
         IN  IF displayTeam = <<>> \/ canonical = <<>>
             THEN unify(teams, i + 1, seenLast)
             ELSE IF seenLast = NULL \/ seenLast # canonical
             THEN <<displayTeam>> \o unify(teams, i + 1, canonical)
             ELSE unify(teams, i + 1, seenLast)

\* displayTeams as parseTradeChain builds it (empty on an early return)
displayTeamsOf(trades) ==
    IF trades = NULL \/ trades = <<>> \/ trim(trades) = <<>> THEN <<>>
    ELSE LET parts == tradeParts(trades)
         IN  IF Len(parts) < 2 THEN <<>>
             ELSE LET teams == extractTeams(parts)
                  IN  [k \in 1..Len(teams) |-> getDisplayTeam(teams[k], Undefined)]

parseTradeChain(trades) ==
    IF trades = NULL \/ trades = <<>> \/ trim(trades) = <<>> THEN <<>>
    ELSE LET parts == tradeParts(trades)
         IN  IF Len(parts) < 2 THEN <<>>
             ELSE LET unifiedDisplayTeams == unify(extractTeams(parts), 1, NULL)
                  IN  IF Len(unifiedDisplayTeams) >= 2
                      THEN unifiedDisplayTeams ELSE <<>>

getOriginalTeam_Canonical(trades) ==
    IF trades = NULL \/ trades = <<>> \/ trim(trades) = <<>> THEN NULL
    ELSE LET firstToIndex == indexOf(trades, <<" ","t","o"," ">>)
         IN  IF firstToIndex = 0 THEN NULL
             ELSE LET original == trim(SubSeq(trades, 1, firstToIndex - 1))
                  IN  IF original = <<>> THEN NULL
                      ELSE getCanonicalTeam(original, Undefined)

getOriginalTeam(trades) ==
    IF trades = NULL \/ trades = <<>> \/ trim(trades) = <<>> THEN NULL
    ELSE LET firstToIndex == indexOf(trades, <<" ","t","o"," ">>)
         IN  IF firstToIndex = 0 THEN NULL
             ELSE LET original == trim(SubSeq(trades, 1, firstToIndex - 1))
                  IN  IF original = <<>> THEN NULL
                      ELSE getDisplayTeam(original, Undefined)

isDifferentTeam(originalTeam, currentTeam) ==
    IF originalTeam = NULL \/ originalTeam = <<>> THEN FALSE
    ELSE getCanonicalTeam(originalTeam, Undefined)
            # getCanonicalTeam(currentTeam, Undefined)

-----------------------------------------------------------------------------
(* Trade step parser: utils/tradeParser (parseDraftTrade) *)

\* s.split(' ').pop(): the text after the last space of s
RECURSIVE lastOfSplit(_)
lastOfSplit(s) ==
    LET i == indexOf(s, <<" ">>)
    IN  IF i = 0 THEN s ELSE lastOfSplit(SubSeq(s, i + 1, Len(s)))

\* s.split(' ')[0]: the text before the first space of s
firstOfSplit(s) ==
    LET i == indexOf(s, <<" ">>)
    IN  IF i = 0 THEN s ELSE SubSeq(s, 1, i - 1)

\* parts[i]?.trim().split(' ').pop() || ''
fromRawOf(part) == lastOfSplit(trim(part))

\* parts[i + 1]?.trim().split(' ')[0] || ''
toRawOf(part) == firstOfSplit(trim(part))

\* the for loop over i < parts.length - 1, from index i on (1-based)
RECURSIVE tradeSteps_StopsEarly(_, _)
tradeSteps_StopsEarly(parts, i) ==
    IF i > Len(parts) - 2 THEN <<>>
    ELSE LET fromRaw == fromRawOf(parts[i])
             toRaw == toRawOf(parts[i + 1])
         IN  (IF fromRaw # <<>> /\ toRaw # <<>>
              THEN << [from |-> getDisplayTeam(fromRaw, Undefined),
                       to |-> getDisplayTeam(toRaw, Undefined)] >>
              ELSE <<>>)
             \o tradeSteps_StopsEarly(parts, i + 1)

RECURSIVE tradeSteps_ToOfSameSegment(_, _)
tradeSteps_ToOfSameSegment(parts, i) ==
    IF i > Len(parts) - 1 THEN <<>>
    ELSE LET fromRaw == fromRawOf(parts[i])
             toRaw == toRawOf(parts[i])
         IN  (IF fromRaw # <<>> /\ toRaw # <<>>
              THEN << [from |-> getDisplayTeam(fromRaw, Undefined),
                       to |-> getDisplayTeam(toRaw, Undefined)] >>
              ELSE <<>>)
             \o tradeSteps_ToOfSameSegment(parts, i + 1)

RECURSIVE tradeSteps_FromFirstToken(_, _)
tradeSteps_FromFirstToken(parts, i) ==
    IF i > Len(parts) - 1 THEN <<>>
    ELSE LET fromRaw == toRawOf(parts[i])
             toRaw == toRawOf(parts[i + 1])
         IN  (IF fromRaw # <<>> /\ toRaw # <<>>
              THEN << [from |-> getDisplayTeam(fromRaw, Undefined),
                       to |-> getDisplayTeam(toRaw, Undefined)] >>
              ELSE <<>>)
             \o tradeSteps_FromFirstToken(parts, i + 1)

RECURSIVE tradeSteps(_, _)
tradeSteps(parts, i) ==
    IF i > Len(parts) - 1 THEN <<>>
    ELSE LET fromRaw == fromRawOf(parts[i])
             toRaw == toRawOf(parts[i + 1])
         IN  (IF fromRaw # <<>> /\ toRaw # <<>>
              THEN << [from |-> getDisplayTeam(fromRaw, Undefined),
                       to |-> getDisplayTeam(toRaw, Undefined)] >>
              ELSE <<>>)
             \o tradeSteps(parts, i + 1)

\* the return value null of parseDraftTrade
NullParsedTrade == [null |-> TRUE, original |-> <<>>, steps |-> <<>>, finalTeam |-> <<>>]

\* the ParsedTrade returned, or NullParsedTrade
parseDraftTrade(tradeString) ==
    IF tradeString = NULL \/ tradeString = <<>> \/ trim(tradeString) = <<>>
    THEN NullParsedTrade
    ELSE LET parts == split(tradeString, <<" ","t","o"," ">>)
             steps == tradeSteps(parts, 1)
             finalTeam == IF steps # <<>>
                          THEN getDisplayTeam(steps[Len(steps)].to, Undefined)
                          ELSE <<>>
         IN  [null |-> FALSE, original |-> tradeString, steps |-> steps,
              finalTeam |-> finalTeam]

-----------------------------------------------------------------------------
(* CSV pick ingestor: utils/csvParser.ts *)

\* the value of a digit in the given radix, -1 for any other character
DigitValue(c, radix) ==
    LET u == UpperChar(c)
        hex == <<"0","1","2","3","4","5","6","7","8","9","A","B","C","D","E","F">>
    IN  IF \E k \in 1..radix : hex[k] = u
        THEN (CHOOSE k \in 1..radix : hex[k] = u) - 1
        ELSE -1

\* the number of leading digits of s
RECURSIVE DigitRun(_, _)
DigitRun(s, radix) ==
    IF s # <<>> /\ DigitValue(Head(s), radix) >= 0
    THEN 1 + DigitRun(Tail(s), radix)
    ELSE 0

\* the value of a string of digits
RECURSIVE DigitsValue(_, _)
DigitsValue(s, radix) ==
    IF s = <<>> THEN 0
    ELSE DigitsValue(SubSeq(s, 1, Len(s) - 1), radix) * radix
            + DigitValue(s[Len(s)], radix)

RECURSIVE Pow10(_)
Pow10(n) == IF n <= 0 THEN 1 ELSE 10 * Pow10(n - 1)

\* parseInt(str) with no radix: leading white space, a sign, 0x for hex, then
\* the longest run of digits; NaN when there is none
parseInt(str) ==
    LET t == trimStart(str)
        signed == t # <<>> /\ Head(t) \in {"-", "+"}
        sign == IF t # <<>> /\ Head(t) = "-" THEN -1 ELSE 1
        u == IF signed THEN Tail(t) ELSE t
        isHex == Len(u) >= 2 /\ u[1] = "0" /\ u[2] \in {"x", "X"}
        radix == IF isHex THEN 16 ELSE 10
        body == IF isHex THEN SubSeq(u, 3, Len(u)) ELSE u
        n == DigitRun(body, radix)
    IN  IF n = 0 THEN NaN
        ELSE Num(sign * DigitsValue(SubSeq(body, 1, n), radix))

\* v / 10^d with no trailing zero in the fraction
RECURSIVE Normalized(_, _)
Normalized(v, d) ==
    IF d > 0 /\ v % 10 = 0 THEN Normalized(v \div 10, d - 1)
    ELSE [k |-> "number", v |-> v, d |-> d]

\* parseFloat(str): leading white space, then the longest prefix that is a
\* decimal literal (sign, Infinity, digits, fraction, exponent); NaN when
\* there is none
parseFloat(str) ==
    LET t == trimStart(str)
        signed == t # <<>> /\ Head(t) \in {"-", "+"}
        sign == IF t # <<>> /\ Head(t) = "-" THEN -1 ELSE 1
        u == IF signed THEN Tail(t) ELSE t
        ni == DigitRun(u, 10)
        afterInt == SubSeq(u, ni + 1, Len(u))
        hasDot == afterInt # <<>> /\ Head(afterInt) = "."
        nf == IF hasDot THEN DigitRun(Tail(afterInt), 10) ELSE 0
        frac == IF hasDot THEN SubSeq(afterInt, 2, nf + 1) ELSE <<>>
        afterFrac == IF hasDot /\ (ni > 0 \/ nf > 0)
                     THEN SubSeq(afterInt, nf + 2, Len(afterInt))
                     ELSE afterInt
        hasE == afterFrac # <<>> /\ Head(afterFrac) \in {"e", "E"}
        expSigned == hasE /\ Len(afterFrac) >= 2 /\ afterFrac[2] \in {"-", "+"}
        expSign == IF expSigned /\ afterFrac[2] = "-" THEN -1 ELSE 1
        expBody == IF ~hasE THEN <<>>
                   ELSE IF expSigned THEN SubSeq(afterFrac, 3, Len(afterFrac))
                   ELSE Tail(afterFrac)
        ne == DigitRun(expBody, 10)
        exp == IF ne = 0 THEN 0 ELSE expSign * DigitsValue(SubSeq(expBody, 1, ne), 10)
        mant == DigitsValue(SubSeq(u, 1, ni) \o frac, 10)
        shift == exp - nf
    IN  IF Len(u) >= 8 /\ SubSeq(u, 1, 8) = <<"I","n","f","i","n","i","t","y">>
        THEN [k |-> "Infinity", v |-> sign, d |-> 0]
        ELSE IF ni = 0 /\ nf = 0 THEN NaN
        ELSE IF shift >= 0 THEN Num(sign * mant * Pow10(shift))
        ELSE Normalized(sign * mant, 0 - shift)

\* the loop of parseCSVLine from character i on
RECURSIVE CSVLineFrom_SplitsInQuotes(_, _, _, _)
CSVLineFrom_SplitsInQuotes(line, i, current, inQuotes) ==
    IF i > Len(line) THEN <<trim(current)>>
    ELSE IF line[i] = "\"" THEN CSVLineFrom_SplitsInQuotes(line, i + 1, current, ~inQuotes)
    ELSE IF line[i] = ","
    THEN <<trim(current)>> \o CSVLineFrom_SplitsInQuotes(line, i + 1, <<>>, inQuotes)
    ELSE CSVLineFrom_SplitsInQuotes(line, i + 1, current \o <<line[i]>>, inQuotes)

RECURSIVE CSVLineFrom(_, _, _, _)
CSVLineFrom(line, i, current, inQuotes) ==
    IF i > Len(line) THEN <<trim(current)>>
    ELSE IF line[i] = "\"" THEN CSVLineFrom(line, i + 1, current, ~inQuotes)
    ELSE IF line[i] = "," /\ ~inQuotes
    THEN <<trim(current)>> \o CSVLineFrom(line, i + 1, <<>>, inQuotes)
    ELSE CSVLineFrom(line, i + 1, current \o <<line[i]>>, inQuotes)

parseCSVLine(line) == CSVLineFrom(line, 1, <<>>, FALSE)

\* new RegExp(`^${teamCode}\\s+to\\s+`, 'i').test(draftTrades), for a team
\* code of letters: the code, white space, 'to' and white space, in any case
tradedAwayPattern(teamCode, draftTrades) ==
    LET n == Len(teamCode)
        j == SkipWhiteSpace(draftTrades, n + 1)
    IN  /\ n + 1 <= Len(draftTrades)
        /\ toUpperCase(SubSeq(draftTrades, 1, n)) = toUpperCase(teamCode)
        /\ draftTrades[n + 1] \in WhiteSpace
        /\ j + 2 <= Len(draftTrades)
        /\ UpperChar(draftTrades[j]) = "T"
        /\ UpperChar(draftTrades[j + 1]) = "O"
        /\ draftTrades[j + 2] \in WhiteSpace

\* allTeamCodes.some(teamCode => pattern.test(draftTrades))
wasTradedAway_CanonicalOnly(teamAbbreviation, yr, draftTrades) ==
    tradedAwayPattern(toUpperCase(teamAbbreviation), draftTrades)

wasTradedAway_NoYear(teamAbbreviation, yr, draftTrades) ==
    LET allTeamCodes == getAllTeamCodes(teamAbbreviation, Undefined)
    IN  \E k \in 1..Len(allTeamCodes) : tradedAwayPattern(allTeamCodes[k], draftTrades)

wasTradedAway_Never(teamAbbreviation, yr, draftTrades) == FALSE

wasTradedAway(teamAbbreviation, yr, draftTrades) ==
    LET allTeamCodes == getAllTeamCodes(teamAbbreviation, yr)
    IN  \E k \in 1..Len(allTeamCodes) : tradedAwayPattern(allTeamCodes[k], draftTrades)

\* x || dflt for a string x
OrDefault(x, dflt) == IF x = <<>> THEN dflt ELSE x

\* position.replace(/^[SP]/g, '')
RECURSIVE stripPosition_EveryLeading(_)
stripPosition_EveryLeading(position) ==
    IF position # <<>> /\ Head(position) \in {"S", "P"}
    THEN stripPosition_EveryLeading(Tail(position))
    ELSE position

stripPosition(position) ==
    IF position # <<>> /\ Head(position) \in {"S", "P"} THEN Tail(position)
    ELSE position

\* the object pushed to picks for a line that is kept
makePick_KeepsEmptyTrade(values, draftTrades, teamAbbreviation) ==
    [ year |-> parseInt(OrDefault(values[1], <<"0">>)),
      round |-> parseInt(OrDefault(values[2], <<"0">>)),
      pick |-> parseInt(OrDefault(values[3], <<"0">>)),
      player |-> values[4],
      position |-> stripPosition(values[5]),
      height |-> values[6],
      weight |-> parseFloat(OrDefault(values[7], <<"0">>)),
      age |-> parseFloat(OrDefault(values[8], <<"0">>)),
      preDraftTeam |-> values[9],
      class |-> values[10],
      draftTrades |-> draftTrades,
      yearsOfService |-> parseInt(OrDefault(values[12], <<"0">>)),
      team |-> teamAbbreviation,
      teamLogo |-> <<"https://raw.githubusercontent.com/gtkacz/nba-logo-api/main/icons/">>
                   \o toLowerCase(teamAbbreviation) \o <<".svg">> ]

makePick_TeamOfTrade(values, draftTrades, teamAbbreviation) ==
    [ year |-> parseInt(OrDefault(values[1], <<"0">>)),
      round |-> parseInt(OrDefault(values[2], <<"0">>)),
      pick |-> parseInt(OrDefault(values[3], <<"0">>)),
      player |-> values[4],
      position |-> stripPosition(values[5]),
      height |-> values[6],
      weight |-> parseFloat(OrDefault(values[7], <<"0">>)),
      age |-> parseFloat(OrDefault(values[8], <<"0">>)),
      preDraftTeam |-> values[9],
      class |-> values[10],
      draftTrades |-> IF draftTrades # <<>> THEN draftTrades ELSE NULL,
      yearsOfService |-> parseInt(OrDefault(values[12], <<"0">>)),
      team |-> IF draftTrades # <<>> THEN toUpperCase(firstOfSplit(draftTrades))
               ELSE teamAbbreviation,
      teamLogo |-> <<"https://raw.githubusercontent.com/gtkacz/nba-logo-api/main/icons/">>
                   \o toLowerCase(teamAbbreviation) \o <<".svg">> ]

makePick(values, draftTrades, teamAbbreviation) ==
    [ year |-> parseInt(OrDefault(values[1], <<"0">>)),
      round |-> parseInt(OrDefault(values[2], <<"0">>)),
      pick |-> parseInt(OrDefault(values[3], <<"0">>)),
      player |-> values[4],
      position |-> stripPosition(values[5]),
      height |-> values[6],
      weight |-> parseFloat(OrDefault(values[7], <<"0">>)),
      age |-> parseFloat(OrDefault(values[8], <<"0">>)),
      preDraftTeam |-> values[9],
      class |-> values[10],
      draftTrades |-> IF draftTrades # <<>> THEN draftTrades ELSE NULL,
      yearsOfService |-> parseInt(OrDefault(values[12], <<"0">>)),
      team |-> teamAbbreviation,
      teamLogo |-> <<"https://raw.githubusercontent.com/gtkacz/nba-logo-api/main/icons/">>
                   \o toLowerCase(teamAbbreviation) \o <<".svg">> ]

\* one pass of the for loop: what line i adds to picks
picksOfLine(line, teamAbbreviation) ==
    IF line = <<>> \/ trim(line) = <<>> THEN <<>>
    ELSE LET values == parseCSVLine(line)
         IN  IF Len(values) < 13 THEN <<>>
             ELSE LET draftTrades == trim(values[11])
                      yr == parseInt(OrDefault(values[1], <<"0">>))
                  IN  IF draftTrades # <<>>
                         /\ wasTradedAway(teamAbbreviation, yr, draftTrades)
                      THEN <<>>
                      ELSE <<makePick(values, draftTrades, teamAbbreviation)>>

RECURSIVE picksFrom_StopsAtShortLine(_, _, _)
picksFrom_StopsAtShortLine(lines, i, teamAbbreviation) ==
    IF i > Len(lines) THEN <<>>
    ELSE IF Len(parseCSVLine(lines[i])) < 13 THEN <<>>
    ELSE picksOfLine(lines[i], teamAbbreviation)
            \o picksFrom_StopsAtShortLine(lines, i + 1, teamAbbreviation)

RECURSIVE picksFrom(_, _, _)
picksFrom(lines, i, teamAbbreviation) ==
    IF i > Len(lines) THEN <<>>
    ELSE picksOfLine(lines[i], teamAbbreviation)
            \o picksFrom(lines, i + 1, teamAbbreviation)

parseCSV(text, teamAbbreviation) ==
    LET lines == split(trim(text), <<"\n">>)
    IN  IF Len(lines) < 2 THEN <<>>
        ELSE picksFrom(lines, 2, teamAbbreviation)

-----------------------------------------------------------------------------
(* CSV cache: utils/csvCache, over the browser's localStorage.  The storage
   is a function from the keys present to their values. *)

CACHE_VERSION_KEY ==
    <<"n","b","a","_","d","r","a","f","t","_","c","s","v","_","c","a","c","h","e","_","v","e","r","s","i","o","n">>

CACHE_PREFIX ==
    <<"n","b","a","_","d","r","a","f","t","_","c","s","v","_","c","a","c","h","e","_">>

CACHE_TIMESTAMP_PREFIX ==
    <<"n","b","a","_","d","r","a","f","t","_","c","s","v","_","c","a","c","h","e","_","t","i","m","e","s","t","a","m","p","_">>

\* String.prototype.startsWith
startsWith(s, prefix) ==
    Len(s) >= Len(prefix) /\ SubSeq(s, 1, Len(prefix)) = prefix

\* localStorage.getItem and setItem
getItem(store, key) == IF key \in DOMAIN store THEN store[key] ELSE NULL

setItem(store, key, value) ==
    [k \in DOMAIN store \cup {key} |-> IF k = key THEN value ELSE store[k]]

\* the two loops that collect keysToRemove and remove them
removeCacheKeys(store) ==
    [k \in {x \in DOMAIN store :
                ~(startsWith(x, CACHE_PREFIX) \/ startsWith(x, CACHE_TIMESTAMP_PREFIX))}
        |-> store[k]]

\* the split is commented out: the version comes back whole
getMajorMinorVersion(version) == version

isCacheValid_MissingIsValid(store, currentVersion) ==
    LET cachedVersion == getItem(store, CACHE_VERSION_KEY)
    IN  IF cachedVersion = NULL \/ cachedVersion = <<>> THEN TRUE
        ELSE getMajorMinorVersion(cachedVersion) = getMajorMinorVersion(currentVersion)

isCacheValid(store, currentVersion) ==
    LET cachedVersion == getItem(store, CACHE_VERSION_KEY)
    IN  IF cachedVersion = NULL \/ cachedVersion = <<>> THEN FALSE
        ELSE getMajorMinorVersion(cachedVersion) = getMajorMinorVersion(currentVersion)

\* the storage invalidateCacheIfNeeded leaves
invalidateCacheIfNeeded(store, currentVersion) ==
    LET cachedVersion == getItem(store, CACHE_VERSION_KEY)
    IN  IF ~isCacheValid(store, currentVersion)
        THEN setItem(removeCacheKeys(store), CACHE_VERSION_KEY, currentVersion)
        ELSE IF cachedVersion = NULL \/ cachedVersion = <<>>
        THEN setItem(store, CACHE_VERSION_KEY, currentVersion)
        ELSE store

enrichedSuffix(enriched) ==
    IF enriched THEN <<"e","n","r","i","c","h","e","d">> ELSE <<"r","e","g","u","l","a","r">>

getCacheKey(team, enriched) ==
    CACHE_PREFIX \o team \o <<"_">> \o enrichedSuffix(enriched)

getTimestampKey(team, enriched) ==
    CACHE_TIMESTAMP_PREFIX \o team \o <<"_">> \o enrichedSuffix(enriched)

\* what getCachedCSV returns, after the storage was invalidated if needed
getCachedCSV(store, currentVersion, team, enriched) ==
    LET cached == getItem(invalidateCacheIfNeeded(store, currentVersion),
                          getCacheKey(team, enriched))
    IN  IF cached = NULL \/ cached = <<>> THEN NULL ELSE cached

\* the outcomes of the two setItem calls of a try block: both succeed, the
\* first throws, or the second throws
TryOutcomes == {"ok", "csv throws", "timestamp throws"}

\* the storage a try block leaves; the timestamp is Date.now().toString(),
\* the clock's reading, which no reader looks at
tryStore(store, team, enriched, text, outcome) ==
    CASE outcome = "ok" ->
             setItem(setItem(store, getCacheKey(team, enriched), text),
                     getTimestampKey(team, enriched), <<"n","o","w">>)
      [] outcome = "csv throws" -> store
      [] outcome = "timestamp throws" ->
             setItem(store, getCacheKey(team, enriched), text)

\* the storage setCachedCSV leaves: first is how the first try ends, quota
\* whether the error thrown is a QuotaExceededError, retry how the retry ends
setCachedCSV(store, currentVersion, team, enriched, text, first, quota, retry) ==
    LET checked == invalidateCacheIfNeeded(store, currentVersion)
        tried == tryStore(checked, team, enriched, text, first)
    IN  IF first = "ok" \/ ~quota THEN tried
        ELSE tryStore(removeCacheKeys(tried), team, enriched, text, retry)

clearCSVCache(store) ==
    LET cleared == removeCacheKeys(store)
    IN  [k \in DOMAIN cleared \ {CACHE_VERSION_KEY} |-> cleared[k]]

initializeCache(store, currentVersion) == invalidateCacheIfNeeded(store, currentVersion)

-----------------------------------------------------------------------------
(* Sort state of the table: components/DraftTable.vue *)

multisortColumns == {"year", "round", "pick"}

DefaultSort ==
    << [key |-> "year", order |-> "desc"],
       [key |-> "round", order |-> "asc"],
       [key |-> "pick", order |-> "asc"] >>

\* the listener that v-model:sort-by="sortBy" installs: sortBy.value = $event
vModelSortBy(current, newSort) == newSort

\* sortBy.value after handleSortUpdate(newSort)
handleSortUpdate(current, newSort) ==
    LET multisortItems == SelectSeq(newSort, LAMBDA x : x.key \in multisortColumns)
        otherItems == SelectSeq(newSort, LAMBDA x : x.key \notin multisortColumns)
    IN  IF Len(otherItems) = 1 /\ Len(multisortItems) = 0 /\ Len(newSort) = 1
        THEN otherItems
        ELSE IF Len(multisortItems) > 0 THEN multisortItems
        ELSE IF Len(newSort) = 0 THEN DefaultSort
        ELSE current

-----------------------------------------------------------------------------
(* How a call of parseCSV ends *)

\* new RegExp(`^${teamCode}\\s+to\\s+`, 'i') throws a SyntaxError for a
\* pattern with a group that is not closed or a ')' that closes none; the
\* codes looked at hold letters and parentheses only
RegExpThrows(teamCode) ==
    \/ \E n \in 1..Len(teamCode) :
           Cardinality({k \in 1..n : teamCode[k] = ")"})
               > Cardinality({k \in 1..n : teamCode[k] = "("})
    \/ Cardinality({k \in 1..Len(teamCode) : teamCode[k] = "("})
           # Cardinality({k \in 1..Len(teamCode) : teamCode[k] = ")"})

\* allTeamCodes.some(...) throws: a pattern cannot be compiled, and none of
\* the codes before it matched
RECURSIVE someThrows(_, _, _)
someThrows(allTeamCodes, k, draftTrades) ==
    IF k > Len(allTeamCodes) THEN FALSE
    ELSE IF RegExpThrows(allTeamCodes[k]) THEN TRUE
    ELSE IF tradedAwayPattern(allTeamCodes[k], draftTrades) THEN FALSE
    ELSE someThrows(allTeamCodes, k + 1, draftTrades)

\* the pass of the for loop over this line throws: the line is not blank, has
\* 13 fields or more and a trade string, and the test of the codes throws
lineThrows(line, teamAbbreviation) ==
    /\ line # <<>>
    /\ trim(line) # <<>>
    /\ LET values == parseCSVLine(line)
       IN  /\ Len(values) >= 13
           /\ trim(values[11]) # <<>>
           /\ someThrows(getAllTeamCodes(teamAbbreviation,
                                         parseInt(OrDefault(values[1], <<"0">>))),
                         1, trim(values[11]))

parseCSVThrows(text, teamAbbreviation) ==
    LET lines == split(trim(text), <<"\n">>)
    IN  /\ Len(lines) >= 2
        /\ \E i \in 2..Len(lines) : lineThrows(lines[i], teamAbbreviation)

\* the promise parseCSV returns: rejected, or fulfilled with the picks
parseCSVOutcome(text, teamAbbreviation) ==
    IF parseCSVThrows(text, teamAbbreviation)
    THEN [fn |-> "parseCSV", threw |-> TRUE, picks |-> <<>>]
    ELSE [fn |-> "parseCSV", threw |-> FALSE, picks |-> parseCSV(text, teamAbbreviation)]

-----------------------------------------------------------------------------
(* The alias resolver's callers: any code, with or without a year *)

TableCodes(table) ==
    {table[i][1] : i \in 1..Len(table)} \cup {table[i][2] : i \in 1..Len(table)}

UpperCodes ==
    TableCodes(TEAM_ALIAS_MAP) \cup TableCodes(csvParser_TEAM_ALIAS_MAP)
    \cup { <<"M","I","N">>, <<"L","A","L">>, <<"D","A","L">>, <<"X","Y","Z">> }

Codes ==
    UpperCodes \cup {toLowerCase(c) : c \in UpperCodes}
    \cup { <<"M","i","n">>, <<"S","e","a">>, <<>> }

YearArgs == {Undefined, NaN, Num(0), Num(1985), Num(1987), Num(1988), Num(1995)}

NoCall == [fn |-> "none", out |-> <<>>]

NoTradeCall == [fn |-> "none", out |-> <<>>, displayTeams |-> <<>>]

TradeIdle ==
    /\ trade = <<>>
    /\ nAppended = 0
    /\ tradeRet = NoTradeCall

NotLoaded == [loaded |-> FALSE, picks |-> <<>>]

IngestIdle ==
    /\ csvText = <<>>
    /\ rows = <<>>
    /\ datasets = <<>>

NoLineCall == [fn |-> "none", out |-> <<>>]

LineIdle ==
    /\ csvLine = <<>>
    /\ lineRet = NoLineCall

NoCacheCall == [fn |-> "none"]

NoSortCall == [fn |-> "none"]

NoIngestCall == [fn |-> "none", threw |-> FALSE, picks |-> <<>>]

\* the cache, the table's sort state and direct ingestion are not exercised
PeripheryIdle ==
    /\ appVersion = <<"1",".","0",".","0">>
    /\ localStorage = <<>>
    /\ cacheRet = NoCacheCall
    /\ sortBy = DefaultSort
    /\ sortCall = NoSortCall
    /\ ingestRet = NoIngestCall

AliasIdle ==
    /\ code = <<>>
    /\ year = Undefined
    /\ aliasRet = NoCall

InitAlias ==
    /\ code \in Codes
    /\ year \in YearArgs
    /\ aliasRet = NoCall
    /\ TradeIdle
    /\ IngestIdle
    /\ LineIdle
    /\ PeripheryIdle

CallGetCanonicalTeam ==
    /\ aliasRet' = [fn |-> "getCanonicalTeam", out |-> getCanonicalTeam(code, year)]
    /\ UNCHANGED <<code, year, trade, nAppended, tradeRet, csvText, rows, datasets,
                 csvLine, lineRet,
                 appVersion, localStorage, cacheRet, sortBy, sortCall, ingestRet>>

CallGetAllTeamCodes ==
    /\ aliasRet' = [fn |-> "getAllTeamCodes", out |-> getAllTeamCodes(code, year)]
    /\ UNCHANGED <<code, year, trade, nAppended, tradeRet, csvText, rows, datasets,
                 csvLine, lineRet,
                 appVersion, localStorage, cacheRet, sortBy, sortCall, ingestRet>>

\* the one-parameter definitions of utils/csvParser.ts take no year
CallCsvParserGetCanonicalTeam ==
    /\ aliasRet' = [fn |-> "csvParser_getCanonicalTeam",
                    out |-> csvParser_getCanonicalTeam(code)]
    /\ UNCHANGED <<code, year, trade, nAppended, tradeRet, csvText, rows, datasets,
                 csvLine, lineRet,
                 appVersion, localStorage, cacheRet, sortBy, sortCall, ingestRet>>

CallCsvParserGetAllTeamCodes ==
    /\ aliasRet' = [fn |-> "csvParser_getAllTeamCodes",
                    out |-> csvParser_getAllTeamCodes(code)]
    /\ UNCHANGED <<code, year, trade, nAppended, tradeRet, csvText, rows, datasets,
                 csvLine, lineRet,
                 appVersion, localStorage, cacheRet, sortBy, sortCall, ingestRet>>

NextAlias ==
    \/ CallGetCanonicalTeam
    \/ CallGetAllTeamCodes
    \/ CallCsvParserGetCanonicalTeam
    \/ CallCsvParserGetAllTeamCodes

SpecAlias == InitAlias /\ [][NextAlias]_vars

-----------------------------------------------------------------------------
(* The trade parser's callers: a raw trade string put together from a seed
   and a few pieces, then handed to the functions of the table row *)

MaxAppended == 3

CHA_BOS_BOS_ATL ==
    <<"C","H","A"," ","t","o"," "," ","B","O","S"," ","B","O","S"," "," ",
      "t","o"," ","A","T","L">>

SeedTrades ==
    { NULL, <<>>, CHA_BOS_BOS_ATL,
      <<"A","T","L"," ","t","o"," "," ","D","A","L">>,
      <<"A","T","L"," ","N","J","N"," ","t","o"," "," ","b","k","n"," ","A","T","L">>,
      <<" ","t","o"," ">>,
      <<"A","T","L","\t","t","o"," ","D","A","L">> }

TradePieces ==
    { <<"A","T","L">>, <<"N","J","N">>, <<"b","k","n">>, <<"N","O","L","A">>,
      <<"P","H","I","L","A">>, <<" ","t","o"," ">>, <<"t","o">>, <<" ">>, <<"\t">> }

InitTrade ==
    /\ trade \in SeedTrades
    /\ nAppended = 0
    /\ tradeRet = NoTradeCall
    /\ AliasIdle
    /\ IngestIdle
    /\ LineIdle
    /\ PeripheryIdle

AppendPiece(piece) ==
    /\ trade # NULL
    /\ tradeRet.fn = "none"
    /\ nAppended < MaxAppended
    /\ trade' = trade \o piece
    /\ nAppended' = nAppended + 1
    /\ UNCHANGED <<code, year, aliasRet, tradeRet, csvText, rows, datasets,
                 csvLine, lineRet,
                 appVersion, localStorage, cacheRet, sortBy, sortCall, ingestRet>>

CallParseTradeChain ==
    /\ tradeRet' = [fn |-> "parseTradeChain",
                    out |-> parseTradeChain(trade),
                    displayTeams |-> displayTeamsOf(trade)]
    /\ UNCHANGED <<code, year, aliasRet, trade, nAppended, csvText, rows, datasets,
                 csvLine, lineRet,
                 appVersion, localStorage, cacheRet, sortBy, sortCall, ingestRet>>

CallGetOriginalTeam ==
    /\ tradeRet' = [fn |-> "getOriginalTeam",
                    out |-> getOriginalTeam(trade),
                    displayTeams |-> <<>>]
    /\ UNCHANGED <<code, year, aliasRet, trade, nAppended, csvText, rows, datasets,
                 csvLine, lineRet,
                 appVersion, localStorage, cacheRet, sortBy, sortCall, ingestRet>>

\* the ParsedTrade goes to the field parsed of the call record
CallParseDraftTrade ==
    /\ tradeRet' = [fn |-> "parseDraftTrade",
                    out |-> <<>>,
                    displayTeams |-> <<>>,
                    parsed |-> parseDraftTrade(trade)]
    /\ UNCHANGED <<code, year, aliasRet, trade, nAppended, csvText, rows, datasets,
                 csvLine, lineRet,
                 appVersion, localStorage, cacheRet, sortBy, sortCall, ingestRet>>

NextTrade ==
    \/ \E piece \in TradePieces : AppendPiece(piece)
    \/ CallParseTradeChain
    \/ CallGetOriginalTeam
    \/ CallParseDraftTrade

SpecTrade == InitTrade /\ [][NextTrade]_vars

-----------------------------------------------------------------------------
(* Ingestion: a CSV text of a header and a few data lines is put together,
   then loaded as the file of one team after another.  The same text stands
   for every team's file, so that a row present in several files is the same
   row in each. *)

MaxRows == 2

MaxFiles == 2

\* the teams whose files are loaded
FileTeams ==
    { <<"A","T","L">>, <<"D","A","L">>, <<"L","A","L">>, <<"M","I","N">>,
      <<"O","K","C">> }

ATL_to_DAL == <<"A","T","L"," ","t","o"," "," ","D","A","L">>

MIN_to_LAL == <<"M","I","N"," ","t","o"," "," ","L","A","L">>

SEA_to_OKC == <<"S","E","A"," ","t","o"," "," ","O","K","C">>

ATL_DAL_DAL_LAL ==
    <<"A","T","L"," ","t","o"," "," ","D","A","L"," ","D","A","L"," "," ",
      "t","o"," ","L","A","L">>

atl_TO_dal == <<"a","t","l","\t","T","O"," ","d","a","l">>

Y1987 == <<"1","9","8","7">>

Y1988 == <<"1","9","8","8">>

Y1995 == <<"1","9","9","5">>

\* the <<year, trade>> fields of the data lines a file may hold
RowInputs ==
    { <<Y1995, <<>> >>, <<Y1995, ATL_to_DAL>>, <<Y1995, ATL_DAL_DAL_LAL>>,
      <<Y1995, SEA_to_OKC>>, <<Y1995, atl_TO_dal>>,
      <<Y1987, MIN_to_LAL>>, <<Y1988, MIN_to_LAL>>,
      << <<>>, MIN_to_LAL>>, << <<"n","/","a">>, MIN_to_LAL>> }

RECURSIVE join(_, _)
join(fields, sep) ==
    IF fields = <<>> THEN <<>>
    ELSE IF Len(fields) = 1 THEN fields[1]
    ELSE fields[1] \o sep \o join(Tail(fields), sep)

\* a data line of 13 fields in the column order of the files
DataLine(yearField, tradeField) ==
    join(<< yearField, <<"1">>, <<"3">>, <<"P">>, <<"S","G">>, <<"6","-","7">>,
            <<"9","0">>, <<"1","9",".","5">>, <<"D">>, <<"F","r">>,
            tradeField, <<"5">>, <<"7">> >>, <<",">>)

HeaderLine == <<"Y","e","a","r">>

\* a line of 12 fields: one too few
ShortRow ==
    << <<>>, <<>>,
       << Y1995, <<"1">>, <<"3">>, <<"P">>, <<"S","G">>, <<"6","-","7">>, <<"9","0">>,
          <<"1","9",".","5">>, <<"D">>, <<"F","r">>, ATL_to_DAL, <<"5">> >> >>

\* the lines a file may hold besides: <<year, trade, the fields as written>>
OddRows == { ShortRow }

\* the line written for a row
LineOf(row) ==
    IF Len(row) = 2 THEN DataLine(row[1], row[2]) ELSE join(row[3], <<",">>)

Init ==
    /\ csvText = HeaderLine
    /\ rows = <<>>
    /\ datasets = [t \in FileTeams |-> NotLoaded]
    /\ AliasIdle
    /\ TradeIdle
    /\ LineIdle
    /\ PeripheryIdle

NoneLoaded == \A t \in FileTeams : ~datasets[t].loaded

\* the data pipeline writes one more line to the file
AddRow(row) ==
    /\ Len(rows) < MaxRows
    /\ NoneLoaded
    /\ csvText' = csvText \o <<"\n">> \o LineOf(row)
    /\ rows' = Append(rows, row)
    /\ UNCHANGED <<code, year, aliasRet, trade, nAppended, tradeRet, datasets,
                 csvLine, lineRet,
                 appVersion, localStorage, cacheRet, sortBy, sortCall, ingestRet>>

\* the file of team is fetched and parsed
LoadTeamData(team) ==
    /\ ~datasets[team].loaded
    /\ Cardinality({t \in FileTeams : datasets[t].loaded}) < MaxFiles
    /\ datasets' = [datasets EXCEPT
                       ![team] = [loaded |-> TRUE, picks |-> parseCSV(csvText, team)]]
    /\ UNCHANGED <<code, year, aliasRet, trade, nAppended, tradeRet, csvText, rows,
                 csvLine, lineRet,
                 appVersion, localStorage, cacheRet, sortBy, sortCall, ingestRet>>

Next ==
    \/ \E row \in RowInputs \cup OddRows : AddRow(row)
    \/ \E team \in FileTeams : LoadTeamData(team)

Spec == Init /\ [][Next]_vars

-----------------------------------------------------------------------------
(* Ingestion of a file of one data line, for every combination of a few
   values of its columns *)

YearFields == { Y1995, <<>>, <<"n","/","a">> }

RoundFields == { <<"1">>, <<>> }

PositionFields ==
    { <<"S","G">>, <<"P","F">>, <<"C">>, <<"F","C">>, <<"S","P","G">>, <<>> }

WeightFields == { <<"9",".","5">>, <<>>, <<"x">> }

TradeFields == { <<>>, <<" ">>, ATL_to_DAL }

\* <<year, trade, the 13 fields as written>>
FieldRows ==
    { << y, t,
         << y, r, <<"3">>, <<"P">>, p, <<"6","-","7">>, w, <<"1","9",".","5">>,
            <<"D">>, <<"F","r">>, t, <<"5">>, <<"7">> >> >> :
        y \in YearFields, r \in RoundFields, p \in PositionFields,
        w \in WeightFields, t \in TradeFields }

InitFields ==
    /\ \E row \in FieldRows :
           /\ rows = <<row>>
           /\ csvText = HeaderLine \o <<"\n">> \o LineOf(row)
    /\ datasets = [t \in FileTeams |-> NotLoaded]
    /\ AliasIdle
    /\ TradeIdle
    /\ LineIdle
    /\ PeripheryIdle

NextFields == \E team \in FileTeams : LoadTeamData(team)

SpecFields == InitFields /\ [][NextFields]_vars

-----------------------------------------------------------------------------
(* The line splitter's callers: a line typed character by character, then
   handed to parseCSVLine *)

MaxLineLen == 6

Doe_J_line ==
    <<"9","5",",","\"","D","o","e",","," ","J","\"",",","S","G">>

SeedLines == { <<>>, Doe_J_line }

LineChars == {"a", ",", "\"", " "}

InitLine ==
    /\ csvLine \in SeedLines
    /\ lineRet = NoLineCall
    /\ AliasIdle
    /\ TradeIdle
    /\ IngestIdle
    /\ PeripheryIdle

TypeChar(c) ==
    /\ lineRet.fn = "none"
    /\ Len(csvLine) < MaxLineLen
    /\ csvLine' = csvLine \o <<c>>
    /\ UNCHANGED <<code, year, aliasRet, trade, nAppended, tradeRet, csvText, rows,
                 datasets, lineRet,
                 appVersion, localStorage, cacheRet, sortBy, sortCall, ingestRet>>

CallParseCSVLine ==
    /\ lineRet' = [fn |-> "parseCSVLine", out |-> parseCSVLine(csvLine)]
    /\ UNCHANGED <<code, year, aliasRet, trade, nAppended, tradeRet, csvText, rows,
                 datasets, csvLine,
                 appVersion, localStorage, cacheRet, sortBy, sortCall, ingestRet>>

NextLine ==
    \/ \E c \in LineChars : TypeChar(c)
    \/ CallParseCSVLine

SpecLine == InitLine /\ [][NextLine]_vars

-----------------------------------------------------------------------------
(* The cache's callers: the application caches the file it fetched for a team,
   asks for it again, and is redeployed under another version. *)

V_1_0_0 == <<"1",".","0",".","0">>

V_1_0_1 == <<"1",".","0",".","1">>

V_1_1_0 == <<"1",".","1",".","0">>

Versions == {V_1_0_0, V_1_0_1, V_1_1_0}

CacheTeams == {<<"A","T","L">>, <<"B","O","S">>}

\* the text of a team's file as the build of a version serves it
ServedCSV(team, enriched, version) ==
    <<"Y","e","a","r","\n">> \o team \o <<",">> \o enrichedSuffix(enriched)
        \o <<",">> \o version

InitCache ==
    /\ appVersion = V_1_0_0
    \* a key of another application, which the cache must leave alone
    /\ localStorage = [k \in {<<"t","h","e","m","e">>} |-> <<"d","a","r","k">>]
    /\ cacheRet = NoCacheCall
    /\ sortBy = DefaultSort
    /\ sortCall = NoSortCall
    /\ ingestRet = NoIngestCall
    /\ AliasIdle
    /\ TradeIdle
    /\ IngestIdle
    /\ LineIdle

\* a build of another version is deployed and the page reloaded
Deploy(version) ==
    /\ version # appVersion
    /\ appVersion' = version
    /\ UNCHANGED <<code, year, aliasRet, trade, nAppended, tradeRet, csvText, rows,
                   datasets, csvLine, lineRet,
                   localStorage, cacheRet, sortBy, sortCall, ingestRet>>

CallGetCachedCSV(team, enriched) ==
    /\ localStorage' = invalidateCacheIfNeeded(localStorage, appVersion)
    /\ cacheRet' = [fn |-> "getCachedCSV", team |-> team, enriched |-> enriched,
                    text |-> NULL, stored |-> FALSE,
                    out |-> getCachedCSV(localStorage, appVersion, team, enriched),
                    before |-> localStorage, app |-> appVersion]
    /\ UNCHANGED <<code, year, aliasRet, trade, nAppended, tradeRet, csvText, rows,
                   datasets, csvLine, lineRet,
                   appVersion, sortBy, sortCall, ingestRet>>

\* the try blocks of setCachedCSV wrote the entry
storedBy(first, quota, retry) ==
    IF first = "ok" THEN TRUE
    ELSE IF quota THEN retry # "csv throws"
    ELSE first = "timestamp throws"

\* the ways a call of setCachedCSV can go: how the first try ends, whether the
\* error is a QuotaExceededError, and how the retry ends if there is one
SetOutcomes ==
    {<<"ok", FALSE, "ok">>}
        \cup {<<first, FALSE, "ok">> : first \in TryOutcomes \ {"ok"}}
        \cup {<<first, TRUE, retry>> : first \in TryOutcomes \ {"ok"}, retry \in TryOutcomes}

CallSetCachedCSV(team, enriched, first, quota, retry) ==
    LET text == ServedCSV(team, enriched, appVersion)
    IN  /\ localStorage' = setCachedCSV(localStorage, appVersion, team, enriched,
                                        text, first, quota, retry)
        /\ cacheRet' = [fn |-> "setCachedCSV", team |-> team, enriched |-> enriched,
                        text |-> text, stored |-> storedBy(first, quota, retry),
                        out |-> NULL,
                        before |-> localStorage, app |-> appVersion]
        /\ UNCHANGED <<code, year, aliasRet, trade, nAppended, tradeRet, csvText, rows,
                   datasets, csvLine, lineRet,
                   appVersion, sortBy, sortCall, ingestRet>>

CallInitializeCache ==
    /\ localStorage' = initializeCache(localStorage, appVersion)
    /\ cacheRet' = [fn |-> "initializeCache", team |-> NULL, enriched |-> FALSE,
                    text |-> NULL, stored |-> FALSE, out |-> NULL,
                    before |-> localStorage, app |-> appVersion]
    /\ UNCHANGED <<code, year, aliasRet, trade, nAppended, tradeRet, csvText, rows,
                   datasets, csvLine, lineRet,
                   appVersion, sortBy, sortCall, ingestRet>>

CallClearCSVCache ==
    /\ localStorage' = clearCSVCache(localStorage)
    /\ cacheRet' = [fn |-> "clearCSVCache", team |-> NULL, enriched |-> FALSE,
                    text |-> NULL, stored |-> FALSE, out |-> NULL,
                    before |-> localStorage, app |-> appVersion]
    /\ UNCHANGED <<code, year, aliasRet, trade, nAppended, tradeRet, csvText, rows,
                   datasets, csvLine, lineRet,
                   appVersion, sortBy, sortCall, ingestRet>>

NextCache ==
    \/ \E version \in Versions : Deploy(version)
    \/ \E team \in CacheTeams, enriched \in BOOLEAN : CallGetCachedCSV(team, enriched)
    \/ \E team \in CacheTeams, enriched \in BOOLEAN, how \in SetOutcomes :
           CallSetCachedCSV(team, enriched, how[1], how[2], how[3])
    \/ CallInitializeCache
    \/ CallClearCSVCache

SpecCache == InitCache /\ [][NextCache]_vars

-----------------------------------------------------------------------------
(* The table's sort events.  The data table emits update:sort-by with the new
   sort list; the template binds v-model:sort-by="sortBy" and, after it,
   @update:sort-by="handleSortUpdate", so the event runs the v-model
   assignment and then handleSortUpdate, both with the emitted list. *)

MaxSortLen == 2

SortColumns == {"year", "round", "pick", "team", "player"}

\* the lists the table emits: no column twice
SortLists ==
    UNION {{l \in [1..n -> [key : SortColumns, order : {"asc", "desc"}]] :
               \A i, j \in 1..n : i # j => l[i].key # l[j].key} : n \in 0..MaxSortLen}

InitSort ==
    /\ sortBy = DefaultSort
    /\ sortCall = NoSortCall
    /\ appVersion = <<"1",".","0",".","0">>
    /\ localStorage = <<>>
    /\ cacheRet = NoCacheCall
    /\ ingestRet = NoIngestCall
    /\ AliasIdle
    /\ TradeIdle
    /\ IngestIdle
    /\ LineIdle

UpdateSortBy(newSort) ==
    /\ sortBy' = handleSortUpdate(vModelSortBy(sortBy, newSort), newSort)
    /\ sortCall' = [fn |-> "update:sort-by", newSort |-> newSort, before |-> sortBy]
    /\ UNCHANGED <<code, year, aliasRet, trade, nAppended, tradeRet, csvText, rows,
                   datasets, csvLine, lineRet,
                   appVersion, localStorage, cacheRet, ingestRet>>

NextSort == \E newSort \in SortLists : UpdateSortBy(newSort)

SpecSort == InitSort /\ [][NextSort]_vars

-----------------------------------------------------------------------------
(* Malformed input: the functions are called with codes, trade strings and
   texts that no file of the site holds. *)

MalformedCodes ==
    { <<>>, <<"A","T","L">>, <<"a","(">>, <<"(">>,
      <<"S","E","A","T","T","L","E","S","U","P","E","R","S","O","N","I","C","S">> }

MalformedTrades ==
    { NULL, <<>>, <<" ","t","o"," ">>, <<"t","o">>, <<"(">>,
      <<"A","T","L","A","N","T","A","H","A","W","K","S"," ","t","o"," "," "," ">> }

MalformedTexts ==
    { <<>>,
      HeaderLine,
      HeaderLine \o <<"\n">>,
      HeaderLine \o <<"\n">> \o LineOf(ShortRow),
      HeaderLine \o <<"\n">> \o DataLine(Y1995, <<>>),
      HeaderLine \o <<"\n">> \o DataLine(Y1995, ATL_to_DAL),
      HeaderLine \o <<"\n">> \o DataLine(<<"n","/","a">>, <<" ","t","o"," ">>) }

InitMalformed ==
    /\ code \in MalformedCodes
    /\ year \in {Undefined, Num(1987)}
    /\ aliasRet = NoCall
    /\ trade \in MalformedTrades
    /\ nAppended = 0
    /\ tradeRet = NoTradeCall
    /\ csvText \in MalformedTexts
    /\ rows = <<>>
    /\ datasets = <<>>
    /\ LineIdle
    /\ appVersion = <<"1",".","0",".","0">>
    /\ localStorage = <<>>
    /\ cacheRet = NoCacheCall
    /\ sortBy = DefaultSort
    /\ sortCall = NoSortCall
    /\ ingestRet = NoIngestCall

\* parseCSV(csvText, code), called directly
CallParseCSV ==
    /\ ingestRet' = parseCSVOutcome(csvText, code)
    /\ UNCHANGED <<code, year, aliasRet, trade, nAppended, tradeRet, csvText, rows,
                   datasets, csvLine, lineRet,
                   appVersion, localStorage, cacheRet, sortBy, sortCall>>

NextMalformed ==
    \/ CallGetCanonicalTeam
    \/ CallGetAllTeamCodes
    \/ CallParseTradeChain
    \/ CallGetOriginalTeam
    \/ CallParseDraftTrade
    \/ CallParseCSV

SpecMalformed == InitMalformed /\ [][NextMalformed]_vars

-----------------------------------------------------------------------------
(* Claims about the alias resolver *)

Range(seq) == {seq[i] : i \in 1..Len(seq)}

YearBelow1988 == year \in {Num(0), Num(1985), Num(1987)}

\* C5: getCanonicalTeam(code, year) is LAL when the uppercased code is MIN and
\* a year below 1988 is supplied; otherwise the alias table's target for the
\* uppercased code when it is a key, and the uppercased code itself when not
\* (SEA gives OKC, MIN in 1985 LAL, MIN in 1995 or with no year MIN).  The
\* one-parameter definition returns its own table's target or the uppercased
\* code.
C5_Canonicalize ==
    /\ aliasRet.fn = "getCanonicalTeam" =>
         LET u == toUpperCase(code)
         IN  /\ (u = <<"M","I","N">> /\ YearBelow1988) => aliasRet.out = <<"L","A","L">>
             /\ ~(u = <<"M","I","N">> /\ YearBelow1988) =>
                  /\ \A e \in Range(TEAM_ALIAS_MAP) : e[1] = u => aliasRet.out = e[2]
                  /\ u \notin {e[1] : e \in Range(TEAM_ALIAS_MAP)} => aliasRet.out = u
             /\ u = <<"S","E","A">> => aliasRet.out = <<"O","K","C">>
             /\ (u = <<"M","I","N">> /\ year \in {Undefined, Num(1988), Num(1995)})
                  => aliasRet.out = <<"M","I","N">>
    /\ aliasRet.fn = "csvParser_getCanonicalTeam" =>
         LET u == toUpperCase(code)
         IN  /\ \A e \in Range(csvParser_TEAM_ALIAS_MAP) : e[1] = u => aliasRet.out = e[2]
             /\ u \notin {e[1] : e \in Range(csvParser_TEAM_ALIAS_MAP)} => aliasRet.out = u

C5_Witness ==
    /\ aliasRet.fn = "getCanonicalTeam"
    /\ code = <<"m","i","n">>
    /\ year = Num(1985)
    /\ aliasRet.out = <<"L","A","L">>

\* C6: getAllTeamCodes(canonical, year) holds exactly the uppercased canonical
\* code, every alias-table key whose target equals it, and MIN as an extra code
\* exactly when the canonical code is LAL and a year below 1988 is supplied
\* (OKC has SEA; LAL has MIN in 1985 and not in 1995).
C6_AllCodesFor ==
    aliasRet.fn = "getAllTeamCodes" =>
        LET u == toUpperCase(code)
            got == Range(aliasRet.out)
        IN  /\ got = {u}
                  \cup {e[1] : e \in {x \in Range(TEAM_ALIAS_MAP) : x[2] = u}}
                  \cup (IF u = <<"L","A","L">> /\ YearBelow1988
                        THEN { <<"M","I","N">> } ELSE {})
            /\ u = <<"O","K","C">> => <<"S","E","A">> \in got
            /\ u = <<"L","A","L">> => (<<"M","I","N">> \in got <=> YearBelow1988)

C6_Witness ==
    /\ aliasRet.fn = "getAllTeamCodes"
    /\ code = <<"l","a","l">>
    /\ year = Num(1987)
    /\ aliasRet.out = << <<"L","A","L">>, <<"M","I","N">> >>

\* C7: every definition of the alias table maps SEA to OKC, NJN to BKN and VAN
\* to MEM: getCanonicalTeam('VAN') is MEM and getAllTeamCodes('MEM') holds VAN,
\* whichever definition of the table the call reads.
C7_TablePairs ==
    /\ (aliasRet.fn \in {"getCanonicalTeam", "csvParser_getCanonicalTeam"}
        /\ toUpperCase(code) = <<"V","A","N">>)
          => aliasRet.out = <<"M","E","M">>
    /\ (aliasRet.fn \in {"getCanonicalTeam", "csvParser_getCanonicalTeam"}
        /\ toUpperCase(code) = <<"S","E","A">>)
          => aliasRet.out = <<"O","K","C">>
    /\ (aliasRet.fn \in {"getCanonicalTeam", "csvParser_getCanonicalTeam"}
        /\ toUpperCase(code) = <<"N","J","N">>)
          => aliasRet.out = <<"B","K","N">>
    /\ (aliasRet.fn \in {"getAllTeamCodes", "csvParser_getAllTeamCodes"}
        /\ toUpperCase(code) = <<"M","E","M">>)
          => <<"V","A","N">> \in Range(aliasRet.out)

\* a present-day team code: in upper case and not a key of the alias table
IsPresentDay(t) == t \in UpperCodes /\ t # <<>> /\ ~HasKey(TEAM_ALIAS_MAP, t)

\* the codes the two functions are compared on
ComparedCodes == TableCodes(TEAM_ALIAS_MAP) \cup { <<"M","I","N">>, <<"L","A","L">> }

\* c is among the codes returned for the team asked exactly when the team
\* asked is the canonical team of c in that year
CodesMatchCanonical ==
    \A c \in ComparedCodes :
        c \in Range(aliasRet.out) <=> getCanonicalTeam(c, year) = code

\* C26 as stated: for every present-day team T, every optional year and every
\* code c among the table's keys and targets, MIN and LAL, c is in
\* getAllTeamCodes(T, y) if and only if getCanonicalTeam(c, y) is T, also for
\* T = MIN and T = LAL with a year below 1988.
C26_CodesAgreeWithCanonical ==
    (aliasRet.fn = "getAllTeamCodes" /\ IsPresentDay(code)) => CodesMatchCanonical

\* C26 amended: the same, except for T = MIN with a year below 1988, where
\* getAllTeamCodes still returns MIN itself although getCanonicalTeam(MIN, y)
\* is LAL.
C26_CodesAgreeButMinBefore1988 ==
    (aliasRet.fn = "getAllTeamCodes" /\ IsPresentDay(code)) =>
        IF code = <<"M","I","N">> /\ YearBelow1988
        THEN /\ aliasRet.out = << <<"M","I","N">> >>
             /\ getCanonicalTeam(<<"M","I","N">>, year) = <<"L","A","L">>
        ELSE CodesMatchCanonical

\* LAL in 1985: MIN is among its codes and LAL is the canonical team of MIN
C26_Witness ==
    /\ aliasRet.fn = "getAllTeamCodes"
    /\ code = <<"L","A","L">>
    /\ year = Num(1985)
    /\ <<"M","I","N">> \in Range(aliasRet.out)
    /\ getCanonicalTeam(<<"M","I","N">>, year) = code

-----------------------------------------------------------------------------
(* Claims about the trade chain parser *)

\* s[a], s[a+1] is a 'to' with white space on both sides
IsSpacedTo(s, a) ==
    /\ a > 1
    /\ a + 2 <= Len(s)
    /\ s[a] = "t"
    /\ s[a + 1] = "o"
    /\ s[a - 1] \in WhiteSpace
    /\ s[a + 2] \in WhiteSpace

HasSpacedTo(s) == \E a \in 1..Len(s) : IsSpacedTo(s, a)

IsBlank(s) == \A k \in 1..Len(s) : s[k] \in WhiteSpace

\* C8: the chain parseTradeChain returns has no two adjacent elements with the
\* same canonical team and has 0 or at least 2 elements; teams that all share
\* one canonical form give the empty chain (NJN to BKN), and
\* 'CHA to  BOS BOS  to ATL' gives CHA, BOS, ATL.
C8_ChainCollapsed ==
    tradeRet.fn = "parseTradeChain" =>
        LET out == tradeRet.out
            shown == tradeRet.displayTeams
        IN  /\ \A k \in 1..(Len(out) - 1) :
                  getCanonicalTeam(out[k], Undefined)
                      # getCanonicalTeam(out[k + 1], Undefined)
            /\ Len(out) # 1
            /\ (\A a, b \in 1..Len(shown) :
                    getCanonicalTeam(shown[a], Undefined)
                        = getCanonicalTeam(shown[b], Undefined))
                  => out = <<>>
            /\ trade = CHA_BOS_BOS_ATL
                  => out = << <<"C","H","A">>, <<"B","O","S">>, <<"A","T","L">> >>

\* NJN to bkn: two codes of one franchise, collapsed to nothing
C8_Witness ==
    /\ tradeRet.fn = "parseTradeChain"
    /\ trade = <<"N","J","N"," ","t","o"," ","b","k","n">>
    /\ tradeRet.displayTeams = << <<"N","J","N">>, <<"B","K","N">> >>
    /\ tradeRet.out = <<>>

\* C9: parseTradeChain returns the empty chain for null, for an empty or
\* blank string, and for a string with no 'to' between white space.
C9_NoChain ==
    (/\ tradeRet.fn = "parseTradeChain"
     /\ (trade = NULL \/ IsBlank(trade) \/ ~HasSpacedTo(trade)))
        => tradeRet.out = <<>>

\* a non-blank string that holds 'to', but never between white space
C9_Witness ==
    /\ tradeRet.fn = "parseTradeChain"
    /\ trade = <<"A","T","L","t","o","N","J","N">>
    /\ tradeRet.out = <<>>

\* the segments between the separators, trimmed
TrimmedSegments(s) ==
    LET raw == splitSeparator(s)
    IN  [k \in 1..Len(raw) |-> trim(raw[k])]

\* the leading run of s without white space
LeadingToken(s) ==
    LET n == CHOOSE n \in 0..Len(s) :
                 /\ \A k \in 1..n : s[k] \notin WhiteSpace
                 /\ (n < Len(s) => s[n + 1] \in WhiteSpace)
    IN  SubSeq(s, 1, n)

\* what the later segments contribute: the leading token of each, in upper
\* case, when it has 1 to 4 characters
LaterContribution(segs) ==
    LET toks == [k \in 1..Len(segs) |-> toUpperCase(LeadingToken(segs[k]))]
    IN  SelectSeq(toks, LAMBDA t : Len(t) >= 1 /\ Len(t) <= 4)

\* the text before the first 'to' between white space, trimmed
BeforeFirstSeparator(s) ==
    LET a == CHOOSE a \in 1..Len(s) :
                 IsSpacedTo(s, a) /\ \A b \in 1..(a - 1) : ~IsSpacedTo(s, b)
    IN  trim(SubSeq(s, 1, a - 1))

ChainBuilt ==
    /\ tradeRet.fn = "parseTradeChain"
    /\ trade # NULL
    /\ HasSpacedTo(trade)
    /\ Len(tradeParts(trade)) >= 2

-----------------------------------------------------------------------------
(* Claims about the trade step parser and the original team *)

Letters == DOMAIN UpperOf \cup DOMAIN LowerOf

\* the words of s: its maximal runs without white space, in order
RECURSIVE Words(_)
Words(s) ==
    LET t == trimStart(s)
        w == LeadingToken(t)
    IN  IF t = <<>> THEN <<>>
        ELSE <<w>> \o Words(SubSeq(t, Len(w) + 1, Len(t)))

IsTo(w) == w = <<"t","o">>

\* a team code of the grammar: 2 to 4 letters, not the separator word
IsTeamCode(w) ==
    /\ Len(w) >= 2
    /\ Len(w) <= 4
    /\ \A k \in 1..Len(w) : w[k] \in Letters
    /\ ~IsTo(w)

\* Team (' to ' Team)+ as the data writes it: team codes and the word 'to'
\* set apart by one or more spaces, a team before and after every 'to', and
\* between two 'to' the receiving team, possibly named again as the next sender
ValidTrade(s) ==
    /\ s # NULL
    /\ s # <<>>
    /\ \A k \in 1..Len(s) : s[k] \in Letters \cup {" "}
    /\ s[1] # " "
    /\ s[Len(s)] # " "
    /\ LET w == Words(s)
           n == Len(w)
       IN  /\ n >= 3
           /\ \A k \in 1..n : IsTo(w[k]) \/ IsTeamCode(w[k])
           /\ IsTeamCode(w[1]) /\ IsTo(w[2])
           /\ IsTo(w[n - 1]) /\ IsTeamCode(w[n])
           /\ \A k \in 1..(n - 1) : ~(IsTo(w[k]) /\ IsTo(w[k + 1]))
           /\ \A k \in 1..(n - 2) :
                  ~(IsTeamCode(w[k]) /\ IsTeamCode(w[k + 1]) /\ IsTeamCode(w[k + 2]))

\* the number of places where the literal ' to ' occurs in s
OccurrencesOfTo(s) ==
    Cardinality({a \in 1..(Len(s) - 3) : SubSeq(s, a, a + 3) = <<" ","t","o"," ">>})

StepsParsed == tradeRet.fn = "parseDraftTrade"

\* C11: for a valid trade string with N occurrences of ' to ', parseDraftTrade
\* returns exactly N steps.
C11_OneStepPerSeparator ==
    (StepsParsed /\ ValidTrade(trade)) =>
        /\ ~tradeRet.parsed.null
        /\ Len(tradeRet.parsed.steps) = OccurrencesOfTo(trade)

\* CHA to  BOS BOS  to ATL: two separators, two steps
C11_Witness ==
    /\ StepsParsed
    /\ trade = CHA_BOS_BOS_ATL
    /\ ValidTrade(trade)
    /\ OccurrencesOfTo(trade) = 2
    /\ Len(tradeRet.parsed.steps) = 2

\* the chain's last team and the last step's receiving team are one franchise
SameFinalTeam(chain, steps) ==
    /\ steps # <<>>
    /\ getCanonicalTeam(chain[Len(chain)], Undefined)
           = getCanonicalTeam(steps[Len(steps)].to, Undefined)

\* C12 as stated: for every valid trade string parseTradeChain's result has a
\* final element, and it is the team (by canonical form) of the 'to' of the
\* last step parseDraftTrade returns.
C12_ChainEndsAtLastStep ==
    (StepsParsed /\ ValidTrade(trade)) =>
        LET chain == parseTradeChain(trade)
        IN  chain # <<>> /\ SameFinalTeam(chain, tradeRet.parsed.steps)

\* C12 amended: for every valid trade string for which parseTradeChain
\* returns a chain (it returns none when all the teams named are one
\* franchise), the chain's final element is the team (by canonical form) of
\* the 'to' of the last step parseDraftTrade returns.
C12_ChainEndsAtLastStepIfAny ==
    (StepsParsed /\ ValidTrade(trade)) =>
        LET chain == parseTradeChain(trade)
        IN  chain # <<>> => SameFinalTeam(chain, tradeRet.parsed.steps)

\* ATL to  DAL to NJN: the chain ends at NJN and so does the last step
C12_Witness ==
    /\ StepsParsed
    /\ trade = <<"A","T","L"," ","t","o"," "," ","D","A","L"," ","t","o"," ","N","J","N">>
    /\ ValidTrade(trade)
    /\ parseTradeChain(trade) = << <<"A","T","L">>, <<"D","A","L">>, <<"N","J","N">> >>
    /\ tradeRet.parsed.steps[2].to = <<"N","J","N">>

\* the trailing run of s without white space
TrailingToken(s) ==
    LET n == CHOOSE n \in 0..Len(s) :
                 /\ \A k \in (Len(s) - n + 1)..Len(s) : s[k] \notin WhiteSpace
                 /\ (n < Len(s) => s[Len(s) - n] \in WhiteSpace)
    IN  SubSeq(s, Len(s) - n + 1, Len(s))

\* the text of s after its last space, and before its first space
AfterLastSpace(s) ==
    LET a == CHOOSE a \in 0..Len(s) :
                 /\ (a > 0 => s[a] = " ")
                 /\ \A k \in (a + 1)..Len(s) : s[k] # " "
    IN  SubSeq(s, a + 1, Len(s))

BeforeFirstSpace(s) ==
    LET a == CHOOSE a \in 1..(Len(s) + 1) :
                 /\ (a <= Len(s) => s[a] = " ")
                 /\ \A k \in 1..(a - 1) : s[k] # " "
    IN  SubSeq(s, 1, a - 1)

\* the segments of s between the occurrences of the literal ' to '
LiteralSegments(s) == split(s, <<" ","t","o"," ">>)

\* C13 as stated: the string is split on the literal ' to '; every pair of
\* adjacent segments gives a step whose 'from' is the last whitespace-delimited
\* token of the first and whose 'to' is the first whitespace-delimited token
\* of the second; finalTeam is the 'to' of the last step; null or empty input
\* gives no steps.
C13_StepOfEveryAdjacentPair ==
    StepsParsed =>
        LET p == tradeRet.parsed
        IN  IF trade = NULL \/ trade = <<>> THEN p.steps = <<>>
            ELSE LET segs == LiteralSegments(trade)
                 IN  /\ p.steps =
                           [i \in 1..(Len(segs) - 1) |->
                               [from |-> TrailingToken(trimEnd(segs[i])),
                                to |-> LeadingToken(trimStart(segs[i + 1]))]]
                     /\ p.steps # <<>> => p.finalTeam = p.steps[Len(p.steps)].to

\* C13 amended: the string is split on the literal ' to '; every pair of
\* adjacent segments that are both non-blank gives a step, in order, whose
\* 'from' is the text after the last space of the first segment (trimmed) and
\* whose 'to' is the text before the first space of the second (trimmed), both
\* in upper case; a pair with a blank segment gives no step; finalTeam is the
\* 'to' of the last step, or '' without steps; null, empty or blank input
\* gives null, hence no steps.
C13_StepOfNonBlankPairs ==
    StepsParsed =>
        LET p == tradeRet.parsed
        IN  IF trade = NULL \/ IsBlank(trade)
            THEN p.null /\ p.steps = <<>>
            ELSE LET segs == LiteralSegments(trade)
                     pairs == [i \in 1..(Len(segs) - 1) |->
                                  [a |-> trim(segs[i]), b |-> trim(segs[i + 1])]]
                     kept == SelectSeq(pairs, LAMBDA x : x.a # <<>> /\ x.b # <<>>)
                 IN  /\ ~p.null
                     /\ p.original = trade
                     /\ p.steps =
                           [k \in 1..Len(kept) |->
                               [from |-> toUpperCase(AfterLastSpace(kept[k].a)),
                                to |-> toUpperCase(BeforeFirstSpace(kept[k].b))]]
                     /\ p.finalTeam =
                           IF p.steps = <<>> THEN <<>> ELSE p.steps[Len(p.steps)].to

\* a first segment of two words gives its last word as 'from', and a
\* lower-case receiver is shown in upper case
C13_Witness ==
    /\ StepsParsed
    /\ trade = <<"A","T","L"," ","N","J","N"," ","t","o"," "," ","b","k","n"," ","A","T","L">>
    /\ tradeRet.parsed.steps = << [from |-> <<"N","J","N">>, to |-> <<"B","K","N">>] >>
    /\ tradeRet.parsed.finalTeam = <<"B","K","N">>

OriginalAsked == tradeRet.fn = "getOriginalTeam"

HasLiteralTo(s) == OccurrencesOfTo(s) > 0

\* the text of s before the first occurrence of the literal ' to '
BeforeFirstLiteralTo(s) ==
    LET a == CHOOSE a \in 1..(Len(s) - 3) :
                 /\ SubSeq(s, a, a + 3) = <<" ","t","o"," ">>
                 /\ \A b \in 1..(a - 1) : SubSeq(s, b, b + 3) # <<" ","t","o"," ">>
    IN  SubSeq(s, 1, a - 1)

C27_OriginalIsHeadOfChain ==
    (OriginalAsked /\ parseTradeChain(trade) # <<>>) =>
        /\ tradeRet.out # NULL
        /\ tradeRet.out = parseTradeChain(trade)[1]

-----------------------------------------------------------------------------
(* Claims about the CSV cache *)

CacheCalled == cacheRet.fn \in {"getCachedCSV", "setCachedCSV", "initializeCache"}

\* the keys of cached files and of their timestamps: all the cache's keys but
\* the version's
IsEntryKey(key) ==
    /\ startsWith(key, CACHE_PREFIX) \/ startsWith(key, CACHE_TIMESTAMP_PREFIX)
    /\ key # CACHE_VERSION_KEY

EntryKeys(store) == {key \in DOMAIN store : IsEntryKey(key)}

\* "1.0.1" -> "1.0"
MajorMinor(version) ==
    LET parts == split(version, <<".">>)
    IN  IF Len(parts) >= 2 THEN parts[1] \o <<".">> \o parts[2] ELSE version

\* the stored version and the application's differ in the patch number only
PatchChanged(store, version) ==
    LET cachedVersion == getItem(store, CACHE_VERSION_KEY)
    IN  /\ cachedVersion # NULL
        /\ cachedVersion # version
        /\ MajorMinor(cachedVersion) = MajorMinor(version)

\* C23: when the stored cache version and the application's version have the
\* same major.minor and differ in the patch number only, getCachedCSV,
\* setCachedCSV and initializeCache remove no cached entry, and getCachedCSV
\* returns the text that was cached before the change.
C23_PatchChangeKeepsCache ==
    (CacheCalled /\ PatchChanged(cacheRet.before, cacheRet.app)) =>
        /\ EntryKeys(cacheRet.before) \subseteq EntryKeys(localStorage)
        /\ cacheRet.fn = "getCachedCSV" =>
               cacheRet.out = getItem(cacheRet.before,
                                      getCacheKey(cacheRet.team, cacheRet.enriched))

\* the stored version is missing or is not the application's
VersionStale(store, version) == getItem(store, CACHE_VERSION_KEY) # version

C25_GetAfterSetReturnsText ==
    [][(/\ cacheRet.fn = "setCachedCSV"
        /\ cacheRet.stored
        /\ cacheRet'.fn = "getCachedCSV"
        /\ cacheRet'.team = cacheRet.team
        /\ cacheRet'.enriched = cacheRet.enriched
        /\ cacheRet'.app = cacheRet.app)
           => cacheRet'.out = cacheRet.text]_vars

-----------------------------------------------------------------------------
(* Claims about the table's sort state *)

SortKeys(list) == {list[i].key : i \in 1..Len(list)}

\* C28: after any sequence of sort updates from the default sort, the sort
\* state is never empty and is either a single column outside year, round and
\* pick or a list of columns among year, round and pick; an update with no
\* entries restores the default, and an update naming several columns none of
\* which is year, round or pick leaves the sort state as it was.
C28_SortStateWellFormed ==
    /\ sortBy # <<>>
    /\ \/ Len(sortBy) = 1 /\ sortBy[1].key \notin multisortColumns
       \/ SortKeys(sortBy) \subseteq multisortColumns
    /\ sortCall.fn # "none" =>
           /\ sortCall.newSort = <<>> => sortBy = DefaultSort
           /\ (/\ Len(sortCall.newSort) > 1
               /\ SortKeys(sortCall.newSort) \cap multisortColumns = {})
                  => sortBy = sortCall.before

-----------------------------------------------------------------------------
(* Claims about malformed input *)

\* C21: alias resolution, trade parsing and ingestion raise no error on
\* malformed input: whatever the text, the team code and the trade string,
\* parseCSV completes, with no pick where the text has no data line.
C21_NoErrorOnMalformedInput ==
    ingestRet.fn = "parseCSV" =>
        /\ ~ingestRet.threw
        /\ Len(split(trim(csvText), <<"\n">>)) < 2 => ingestRet.picks = <<>>

-----------------------------------------------------------------------------
(* Claims about the line splitter *)

\* l[i] lies outside double quotes: an even number of quotes precede it
OutsideQuotes(l, i) ==
    Cardinality({k \in 1..(i - 1) : l[k] = "\""}) % 2 = 0

\* where l has a comma outside double quotes
SplittingCommas(l) ==
    {i \in 1..Len(l) : l[i] = "," /\ OutsideQuotes(l, i)}

\* where the k-th field of l starts and ends: after the (k-1)-th splitting
\* comma, before the k-th
FieldStart(l, k) ==
    IF k = 1 THEN 1
    ELSE 1 + CHOOSE i \in SplittingCommas(l) :
                 Cardinality({j \in SplittingCommas(l) : j < i}) = k - 2

FieldEnd(l, k) ==
    IF k = Cardinality(SplittingCommas(l)) + 1 THEN Len(l)
    ELSE (CHOOSE i \in SplittingCommas(l) :
              Cardinality({j \in SplittingCommas(l) : j < i}) = k - 1) - 1

WithoutQuotes(x) == SelectSeq(x, LAMBDA c : c # "\"")

\* C19: parseCSVLine splits a line only at the commas outside double quotes:
\* there is one field more than there are such commas, every field is the text
\* between two of them with its double quotes removed (and trimmed), and a
\* comma between an opening and a closing quote stays inside its field.
C19_SplitsOutsideQuotes ==
    lineRet.fn = "parseCSVLine" =>
        LET out == lineRet.out
        IN  /\ Len(out) = Cardinality(SplittingCommas(csvLine)) + 1
            /\ \A k \in 1..Len(out) :
                   /\ "\"" \notin Range(out[k])
                   /\ out[k] = trim(WithoutQuotes(
                                   SubSeq(csvLine, FieldStart(csvLine, k),
                                          FieldEnd(csvLine, k))))

\* 95,"Doe, J",SG: the comma inside the quotes stays in the second field
C19_Witness ==
    /\ lineRet.fn = "parseCSVLine"
    /\ csvLine = Doe_J_line
    /\ lineRet.out = << <<"9","5">>, <<"D","o","e",","," ","J">>, <<"S","G">> >>

-----------------------------------------------------------------------------
(* Claims about ingestion *)

\* s begins with the code c, white space, 'to' and white space, in any case
BeginsTradedFrom(s, c) ==
    \E a \in (Len(c) + 2)..(Len(s) - 2) :
        /\ toUpperCase(SubSeq(s, 1, Len(c))) = toUpperCase(c)
        /\ \A k \in (Len(c) + 1)..(a - 1) : s[k] \in WhiteSpace
        /\ s[a] \in {"t", "T"}
        /\ s[a + 1] \in {"o", "O"}
        /\ s[a + 2] \in WhiteSpace

Loaded(t) == datasets[t].loaded

PicksOf(t) == Range(datasets[t].picks)

\* the year a data line's year field states, for the year fields of RowInputs
\* that are numbers
RowYear(row) ==
    CASE row[1] = Y1987 -> 1987
      [] row[1] = Y1988 -> 1988
      [] row[1] = Y1995 -> 1995
      [] OTHER -> -1

\* the picks of team t that stand for row
PicksForRow(t, row) ==
    {p \in PicksOf(t) : p.draftTrades = row[2] /\ p.year = Num(RowYear(row))}

\* C1: no pick that parseCSV(csv, X) emits was traded away from X: its trade
\* string is null, or does not begin with a code of getAllTeamCodes(X, the
\* pick's year), white space, 'to', white space.
C1_NoPickTradedAway ==
    \A t \in FileTeams :
        Loaded(t) =>
            \A p \in PicksOf(t) :
                \/ p.draftTrades = NULL
                \/ \A c \in Range(getAllTeamCodes(t, p.year)) :
                       ~BeginsTradedFrom(p.draftTrades, c)

\* OKC's file held a pick sent away under the alias SEA and a pick of other
\* teams: only the second is emitted
C1_Witness ==
    /\ rows = << <<Y1995, SEA_to_OKC>>, <<Y1995, ATL_to_DAL>> >>
    /\ Loaded(<<"O","K","C">>)
    /\ Len(datasets[<<"O","K","C">>].picks) = 1
    /\ datasets[<<"O","K","C">>].picks[1].draftTrades = ATL_to_DAL

\* the teams a trade string names, by canonical code
TeamsNamed(tradeString) ==
    {getCanonicalTeam(x, Undefined) : x \in Range(parseTradeChain(tradeString))}

\* C2: a traded pick row present in the files of several teams is kept for
\* exactly one of them: no two teams the trade names both keep it.
C2_OneTeamKeepsPick ==
    \A r \in Range(rows) :
        \A t1, t2 \in FileTeams \cap TeamsNamed(r[2]) :
            (/\ t1 # t2
             /\ Loaded(t1)
             /\ Loaded(t2)
             /\ r[2] # <<>>
             /\ RowYear(r) # -1)
                => ~(PicksForRow(t1, r) # {} /\ PicksForRow(t2, r) # {})

\* 'X to  Y'
TradeFromTo(x, y) == x \o <<" ","t","o"," "," ">> \o y

\* C3: for teams X and Y where Y's alias set does not hold X's code, a row
\* whose trade field is 'X to  Y' is excluded when the file is ingested as X's,
\* retained when it is ingested as Y's, and getOriginalTeam of the retained
\* trade string is X.
C3_TradedPickScenario ==
    \A x, y \in FileTeams :
        \A r \in Range(rows) :
            (/\ r[2] = TradeFromTo(x, y)
             /\ RowYear(r) # -1
             /\ x \notin Range(getAllTeamCodes(y, Num(RowYear(r)))))
                => /\ Loaded(x) => PicksForRow(x, r) = {}
                   /\ Loaded(y) =>
                        /\ PicksForRow(y, r) # {}
                        /\ \A p \in PicksForRow(y, r) :
                               getOriginalTeam(p.draftTrades) = x

\* ATL to  DAL was loaded as ATL's file and as DAL's
C3_Witness ==
    /\ <<Y1995, ATL_to_DAL>> \in Range(rows)
    /\ Loaded(<<"A","T","L">>)
    /\ Loaded(<<"D","A","L">>)
    /\ PicksForRow(<<"A","T","L">>, <<Y1995, ATL_to_DAL>>) = {}
    /\ PicksForRow(<<"D","A","L">>, <<Y1995, ATL_to_DAL>>) # {}

\* C4: the exclusion uses the alias set of the pick's year: in LAL's file a
\* row that begins 'MIN to ' is excluded when its year is below 1988 and
\* retained when it is 1988 or later; in OKC's file a row that begins with the
\* alias, 'SEA to ', is excluded.
C4_AliasSetOfPickYear ==
    \A r \in Range(rows) :
        /\ (Loaded(<<"L","A","L">>) /\ r[2] = MIN_to_LAL /\ RowYear(r) # -1) =>
              (PicksForRow(<<"L","A","L">>, r) = {} <=> RowYear(r) < 1988)
        /\ (Loaded(<<"O","K","C">>) /\ r[2] = SEA_to_OKC) =>
              PicksForRow(<<"O","K","C">>, r) = {}

\* LAL's file held MIN to  LAL in 1987 and in 1988: only the 1988 row is kept
C4_Witness ==
    /\ rows = << <<Y1987, MIN_to_LAL>>, <<Y1988, MIN_to_LAL>> >>
    /\ Loaded(<<"L","A","L">>)
    /\ Len(datasets[<<"L","A","L">>].picks) = 1
    /\ datasets[<<"L","A","L">>].picks[1].year = Num(1988)

\* the digits and the point: what a plain decimal number is written with
IsNumberText(s) ==
    /\ s # <<>>
    /\ \A k \in 1..Len(s) : s[k] \in {"0","1","2","3","4","5","6","7","8","9","."}

\* the file holds one data line, of fields written one by one
OneRowFile == Len(rows) = 1 /\ Len(rows[1]) = 3

\* the fields of that line as written
FieldsWritten == rows[1][3]

\* C15: every numeric field of an emitted pick is a number, and is 0 when its
\* CSV field is absent or cannot be parsed as a number.
C15_NumericFieldsDefaultToZero ==
    OneRowFile =>
        \A t \in FileTeams :
            \A p \in PicksOf(t) :
                /\ \A n \in {p.year, p.round, p.pick, p.weight, p.age, p.yearsOfService} :
                       n.k = "number"
                /\ ~IsNumberText(FieldsWritten[1]) => p.year = Num(0)
                /\ ~IsNumberText(FieldsWritten[2]) => p.round = Num(0)
                /\ ~IsNumberText(FieldsWritten[7]) => p.weight = Num(0)

\* the number of fields of the line written for a row
FieldCount(row) == Cardinality(SplittingCommas(LineOf(row))) + 1

\* the year parseCSV reads in the year field of a row
RowYearValue(row) ==
    CASE row[1] = <<>> -> Num(0)
      [] row[1] = <<"n","/","a">> -> NaN
      [] OTHER -> Num(RowYear(row))

\* the row's trade string says team t sent the pick away
TradedAwayFrom(t, row) ==
    /\ row[2] # <<>>
    /\ \E c \in Range(getAllTeamCodes(t, RowYearValue(row))) :
           BeginsTradedFrom(row[2], c)

\* the rows of the file that are valid and not excluded for team t, in order
KeptRows(t) ==
    SelectSeq(rows, LAMBDA r : FieldCount(r) >= 13 /\ ~TradedAwayFrom(t, r))

\* C16: a data line of fewer than 13 fields produces no pick and does not stop
\* the ingestion: the picks emitted are those of the other valid, non-excluded
\* lines, one each, in input order; the header line produces none.
C16_ShortLineSkipped ==
    \A t \in FileTeams :
        Loaded(t) =>
            LET kept == KeptRows(t)
                picks == datasets[t].picks
            IN  /\ Len(picks) = Len(kept)
                /\ \A k \in 1..Len(kept) :
                       /\ picks[k].year = RowYearValue(kept[k])
                       /\ picks[k].draftTrades =
                              IF kept[k][2] = <<>> THEN NULL ELSE kept[k][2]

\* a short line, then a valid one: DAL's file gives the pick of the second
C16_Witness ==
    /\ rows = << ShortRow, <<Y1995, ATL_to_DAL>> >>
    /\ Loaded(<<"D","A","L">>)
    /\ Len(datasets[<<"D","A","L">>].picks) = 1
    /\ datasets[<<"D","A","L">>].picks[1].draftTrades = ATL_to_DAL

\* C17: the trade field of an emitted pick is null or a non-empty string; a
\* blank trade column always gives null.
C17_TradeNullOrNonEmpty ==
    OneRowFile =>
        \A t \in FileTeams :
            \A p \in PicksOf(t) :
                /\ p.draftTrades = NULL
                      \/ (p.draftTrades # <<>> /\ ~IsBlank(p.draftTrades))
                /\ IsBlank(FieldsWritten[11]) => p.draftTrades = NULL
                /\ ~IsBlank(FieldsWritten[11]) => p.draftTrades = trim(FieldsWritten[11])

\* a trade column of one space gives null
C17_Witness ==
    /\ OneRowFile
    /\ FieldsWritten[11] = <<" ">>
    /\ \E t \in FileTeams :
           /\ Len(datasets[t].picks) = 1
           /\ datasets[t].picks[1].draftTrades = NULL

\* C18: the position of an emitted pick is the position field without its
\* first character when that is 'S' or 'P', and the field unchanged otherwise:
\* SG gives G, PF gives F, C stays C, FC stays FC, and only one character goes.
C18_OneGuardStripped ==
    OneRowFile =>
        \A t \in FileTeams :
            \A p \in PicksOf(t) :
                LET written == FieldsWritten[5]
                IN  /\ p.position =
                          IF written # <<>> /\ written[1] \in {"S", "P"}
                          THEN SubSeq(written, 2, Len(written))
                          ELSE written
                    /\ written = <<"S","G">> => p.position = <<"G">>
                    /\ written = <<"P","F">> => p.position = <<"F">>
                    /\ written = <<"C">> => p.position = <<"C">>
                    /\ written = <<"F","C">> => p.position = <<"F","C">>

\* SPG loses its S and keeps its P
C18_Witness ==
    /\ OneRowFile
    /\ FieldsWritten[5] = <<"S","P","G">>
    /\ \E t \in FileTeams :
           /\ Len(datasets[t].picks) = 1
           /\ datasets[t].picks[1].position = <<"P","G">>

\* C20: every pick parseCSV(csv, X) emits has X as its owning team, whatever
\* its trade string says.
C20_OwningTeamIsFileTeam ==
    \A t \in FileTeams :
        \A k \in 1..Len(datasets[t].picks) :
            datasets[t].picks[k].team = t

\* DAL's file keeps the pick that ATL sent: its team is DAL
C20_Witness ==
    /\ Loaded(<<"D","A","L">>)
    /\ \E k \in 1..Len(datasets[<<"D","A","L">>].picks) :
           /\ datasets[<<"D","A","L">>].picks[k].draftTrades = ATL_to_DAL
           /\ datasets[<<"D","A","L">>].picks[k].team = <<"D","A","L">>

=============================================================================
